---- MODULE Spec2Model ----
(***************************************************************************)
(* Model of nanoaod/monitor_crab_jobs.py: the polling loop over the crab   *)
(* submissions of a simpack directory, the parser of the status output,    *)
(* and the renderer of the status page (web, make_progress_bar).           *)
(*                                                                         *)
(* Text is modelled as a sequence of atoms.  An atom is a chunk of text    *)
(* that no operation of the program ever cuts: a word fragment, a numeral, *)
(* the percent sign, one space.  A line is a sequence of atoms, a word is  *)
(* a non-empty sequence of atoms without a space.  The string operations   *)
(* of the code (startswith, replace, split, in, strip, float) are computed *)
(* on these sequences.  Percentages are whole numbers.                     *)
(*                                                                         *)
(* A dict is modelled with its insertion order, as a sequence of           *)
(* <<key, value>> pairs with distinct keys.                                *)
(***************************************************************************)
EXTENDS Integers, Sequences, FiniteSets, TLC

\* ------------------------------------------------------------------ bounds

\* Number of sample directories the glob can find under the simpack directory.
MaxPaths == 2
\* Number of lines the temporary log file can come to hold for one sample.
MaxLog == 3
\* Number of lines one invocation of the status command prints.
MaxOut == 2
\* Number of lines of the log handed to the parser in SpecParse.
MaxParseLen == 3
\* Number of entries of the status mapping handed to web in SpecWeb.
MaxStatusLen == 3

\* ------------------------------------------------------- program constants

\* The retry loop: while (attempt<5 and not success).
MaxAttempts == 5
\* Test mode: ntest = min(3, nfproc).
NTest == 3

\* -------------------------------------------------------------------- text

SP == " "
JobsStatus == <<"Jobs", SP, "status:">>
DashboardMarker == <<"Dashboard", SP, "monitoring", SP, "URL">>
SchedulerMarker == <<"Status", SP, "on", SP, "the", SP, "scheduler">>
CompletedMarker == <<"COMPLETED">>
NoneStr == <<"<none>">>
EmptyStr == <<>>

\* The known job statuses, in the order of the list the parser loops over.
KnownStatuses ==
    <<"finished", "running", "transferring", "failed",
      "killed", "idle", "unsubmitted", "toRetry">>

Range(s) == {s[i] : i \in 1..Len(s)}

Min(a, b) == IF a < b THEN a ELSE b

\* str.startswith
StartsWith(s, p) == Len(s) >= Len(p) /\ SubSeq(s, 1, Len(p)) = p

\* p in s
Contains(s, p) ==
    \E i \in 1..(Len(s) - Len(p) + 1) : SubSeq(s, i, i + Len(p) - 1) = p

\* s.replace(p, ''): the occurrences of p, leftmost first, not overlapping.
RECURSIVE Remove(_, _)
Remove(s, p) ==
    IF s = <<>> THEN <<>>
    ELSE IF StartsWith(s, p) THEN Remove(SubSeq(s, Len(p) + 1, Len(s)), p)
    ELSE <<Head(s)>> \o Remove(Tail(s), p)

\* s.split(): the maximal runs without a space; cur is the word being read.
RECURSIVE SplitFrom(_, _)
SplitFrom(s, cur) ==
    IF s = <<>> THEN (IF cur = <<>> THEN <<>> ELSE <<cur>>)
    ELSE IF Head(s) = SP
         THEN (IF cur = <<>> THEN <<>> ELSE <<cur>>) \o SplitFrom(Tail(s), <<>>)
         ELSE SplitFrom(Tail(s), Append(cur, Head(s)))

Split(s) == SplitFrom(s, <<>>)

\* s.strip('%')
RECURSIVE StripLeft(_)
StripLeft(s) ==
    IF s # <<>> /\ Head(s) = "%" THEN StripLeft(Tail(s)) ELSE s

RECURSIVE StripRight(_)
StripRight(s) ==
    IF s # <<>> /\ s[Len(s)] = "%" THEN StripRight(SubSeq(s, 1, Len(s) - 1)) ELSE s

StripPercent(s) == StripRight(StripLeft(s))

Numerals == {"0", "5", "50", "73", "100"}

NumeralValue(a) ==
    CASE a = "0" -> 0
      [] a = "5" -> 5
      [] a = "50" -> 50
      [] a = "73" -> 73
      [] a = "100" -> 100

\* float(s): a number for a numeral, a ValueError for any other text.
Float(s) ==
    IF Len(s) = 1 /\ s[1] \in Numerals
    THEN [ok |-> TRUE, val |-> NumeralValue(s[1])]
    ELSE [ok |-> FALSE, val |-> 0]

\* -------------------------------------------------------------------- dict

DictKeys(d) == {d[i][1] : i \in 1..Len(d)}

DictHas(d, k) == k \in DictKeys(d)

DictGet(d, k) == d[CHOOSE i \in 1..Len(d) : d[i][1] = k][2]

\* d[k] = v: the value is replaced in place, a new key is appended.
DictSet(d, k, v) ==
    IF DictHas(d, k)
    THEN [i \in 1..Len(d) |-> IF d[i][1] = k THEN <<k, v>> ELSE d[i]]
    ELSE Append(d, <<k, v>>)

\* ------------------------------------------------------------ file system

\* The directories `**/crab_logs/*` the model's simpack directory can hold:
\* work is the directory that holds crab_logs, base the submission's name.
AllPaths ==
    << [work |-> "w1", base |-> "A"],
       [work |-> "w2", base |-> "b"],
       [work |-> "w2", base |-> "A"],
       [work |-> "w2", base |-> "C"],
       [work |-> "w3", base |-> "d"] >>

Universe == {AllPaths[i] : i \in 1..Min(MaxPaths, Len(AllPaths))}

WorkDirs == {p.work : p \in Universe}

\* os.path.basename(f)
Basename(p) == p.base

\* f.split('/crab_logs/')[0]
WorkdirOf(p) == p.work

\* The character codes that order the names: upper case sorts before lower.
CharCode(n) ==
    CASE n = "A" -> 65
      [] n = "C" -> 67
      [] n = "a" -> 97
      [] n = "b" -> 98
      [] n = "c" -> 99
      [] n = "d" -> 100
      [] n = "w1" -> 1
      [] n = "w2" -> 2
      [] n = "w3" -> 3

\* The order of the full paths work/crab_logs/base as strings.
PathLess(p, q) ==
    \/ CharCode(p.work) < CharCode(q.work)
    \/ p.work = q.work /\ CharCode(p.base) < CharCode(q.base)

\* x.lower()
Lower(n) ==
    CASE n = "A" -> "a"
      [] n = "C" -> "c"
      [] OTHER -> n

\* The key of the renderer's sort.
LowerLess(m, n) == CharCode(Lower(m)) < CharCode(Lower(n))

\* sorted(glob.glob(...)): the paths in the order of their strings.
RECURSIVE SortPaths(_)
SortPaths(S) ==
    IF S = {} THEN <<>>
    ELSE LET m == CHOOSE x \in S : \A y \in S \ {x} : PathLess(x, y)
         IN <<m>> \o SortPaths(S \ {m})

\* sorted(list(sampledata.keys()), key=lambda x: x.lower())
RECURSIVE SortNames(_)
SortNames(S) ==
    IF S = {} THEN <<>>
    ELSE LET m == CHOOSE x \in S : \A y \in S \ {x} : LowerLess(x, y)
         IN <<m>> \o SortNames(S \ {m})

\* The glob finds the first n directories of AllPaths, for some n.
FoundChoices == {{AllPaths[i] : i \in 1..n} : n \in 0..Min(MaxPaths, Len(AllPaths))}

\* ------------------------------------------------------------------- state

VARIABLES
    simpackIsDir,      \* os.path.isdir(args.simpackdir)
    proxyMissing,      \* args.proxy is given and os.path.exists(args.proxy) is false
    resubmit,          \* args.resubmit
    test,              \* args.test
    found,             \* the directories matching **/crab_logs/*
    scripts,           \* the work directories that hold crab_status.sh
    lumisFile,         \* results/processedLumis.json is a file of the current sample
    pc,                \* the place of the script
    error,             \* the exception that ended the run, "none" while it runs
    fproc,             \* the sorted sample list
    cmds,              \* the status command of each sample
    data,              \* data['samples']: name -> [status, grafana]
    tmpExists,         \* monitor_tmp_log.txt exists
    tmpLines,          \* its lines
    fidx,              \* the loop index, from 1
    attempt,           \* the retry counter
    success,           \* the retry loop's flag
    outlines,          \* the lines the parser read
    lastOut,           \* what the latest invocation of the status command printed
    calls,             \* invocations of the status command for the current sample
    polled,            \* the samples whose status command was invoked
    resubmitCalls,     \* per sample: invocations of its resubmission command
    completedReported, \* the samples reported 'This task is completed...'
    force,             \* web's force argument
    webdir,            \* the directory monitor_crab_jobs exists
    indexHtml          \* monitor_crab_jobs/index.html

vars ==
    << simpackIsDir, proxyMissing, resubmit, test, found, scripts, lumisFile, pc, error,
       fproc, cmds, data, tmpExists, tmpLines, fidx, attempt, success, outlines,
       lastOut, calls, polled, resubmitCalls, completedReported, force, webdir,
       indexHtml >>

envVars == << simpackIsDir, proxyMissing, resubmit, test, found, scripts, force >>

loopVars == << fidx, attempt, success, outlines, lastOut >>

tmpVars == << tmpExists, tmpLines >>

callVars == << calls, polled, resubmitCalls, completedReported >>

webVars == << webdir, indexHtml >>

\* The record every sample starts with.
DefaultRecord == [status |-> << <<"finished", <<"0", "%">> >> >>, grafana |-> EmptyStr]

\* Faulty variant of the failure entry: another key.
FailedStatusOtherKey == << <<"status", <<"failed">> >> >>

\* The record of a sample whose status command failed five times.
FailedStatus == << <<"crab status", <<"failed">> >> >>

NoPage == [exists |-> FALSE, rows |-> <<>>]

Init ==
    /\ simpackIsDir \in BOOLEAN
    /\ proxyMissing \in BOOLEAN
    /\ resubmit \in BOOLEAN
    /\ test \in BOOLEAN
    /\ found \in FoundChoices
    /\ scripts \in SUBSET {WorkdirOf(p) : p \in found}
    /\ lumisFile = FALSE
    /\ pc = "check_args"
    /\ error = "none"
    /\ fproc = <<>>
    /\ cmds = <<>>
    /\ data = <<>>
    /\ tmpExists = FALSE
    /\ tmpLines = <<>>
    /\ fidx = 0
    /\ attempt = 0
    /\ success = FALSE
    /\ outlines = <<>>
    /\ lastOut = <<>>
    /\ calls = 0
    /\ polled = {}
    /\ resubmitCalls = [p \in Universe |-> 0]
    /\ completedReported = {}
    /\ force = FALSE
    /\ webdir = FALSE
    /\ indexHtml = NoPage

\* raise Exception(...)
Raise(e) == pc' = "aborted" /\ error' = e

\* ------------------------------------------------------------ configuration

\* Check command line arguments.
CheckArgs ==
    /\ pc = "check_args"
    /\ IF ~simpackIsDir THEN Raise("simpack directory does not exist")
       ELSE IF proxyMissing THEN Raise("provided proxy does not exist")
       ELSE pc' = "discover" /\ error' = error
    /\ UNCHANGED << envVars, lumisFile, fproc, cmds, data, tmpVars, loopVars,
                    callVars, webVars >>

\* fproc[:ntest] in test mode
Selected(fs, t) == IF t THEN SubSeq(fs, 1, Min(NTest, Len(fs))) ELSE fs

\* Find all sample folders.
Discover ==
    /\ pc = "discover"
    /\ LET all == SortPaths(found)
       IN IF Len(all) = 0
          THEN Raise("No samples found") /\ fproc' = all
          ELSE pc' = "find_scripts" /\ error' = error /\ fproc' = Selected(all, test)
    /\ UNCHANGED << envVars, lumisFile, cmds, data, tmpVars, loopVars,
                    callVars, webVars >>

\* cd workdir; bash crab_status.sh f >> tmpfile 2>&1
StatusCmd(f) == [workdir |-> WorkdirOf(f), script |-> "crab_status.sh", arg |-> f]

\* Faulty variant of the search for the scripts: a missing script is not noticed.
BuildCmdsNoCheck(fs, have) ==
    [ok |-> TRUE, cmds |-> [i \in 1..Len(fs) |-> StatusCmd(fs[i])]]

\* Find the crab_status script for each sample; the first one missing raises.
RECURSIVE BuildCmds(_, _)
BuildCmds(fs, have) ==
    IF fs = <<>> THEN [ok |-> TRUE, cmds |-> <<>>]
    ELSE IF WorkdirOf(Head(fs)) \notin have THEN [ok |-> FALSE, cmds |-> <<>>]
    ELSE LET rest == BuildCmds(Tail(fs), have)
         IN [ok |-> rest.ok, cmds |-> <<StatusCmd(Head(fs))>> \o rest.cmds]

FindScripts ==
    /\ pc = "find_scripts"
    /\ LET r == BuildCmds(fproc, scripts)
       IN IF ~r.ok
          THEN Raise("Could not find crab_status.sh") /\ cmds' = cmds
          ELSE pc' = "init_records" /\ error' = error /\ cmds' = r.cmds
    /\ UNCHANGED << envVars, lumisFile, fproc, data, tmpVars, loopVars,
                    callVars, webVars >>

\* Initialize all samples to 0% finished and empty grafana link.
InitRecords ==
    /\ pc = "init_records"
    /\ data' = [n \in {Basename(fproc[i]) : i \in 1..Len(fproc)} |-> DefaultRecord]
    /\ fidx' = 1
    /\ pc' = "sample"
    /\ UNCHANGED << envVars, lumisFile, error, fproc, cmds, tmpVars, attempt, success,
                    outlines, lastOut, callVars, webVars >>

\* ------------------------------------------------------------ status output

Line(marker, rest) == marker \o rest

\* What the status command prints in a run, line by line.
RunLines ==
    { Line(JobsStatus, <<SP, "finished", SP, "100", "%">>),
      Line(JobsStatus, <<SP, "failed", SP, "50", "%">>),
      Line(DashboardMarker, <<":", SP, "http://x">>) }

SeqsUpTo(S, n) == UNION {[1..k -> S] : k \in 0..n}

Outputs == SeqsUpTo(RunLines, MaxOut)

\* What the resubmission command prints.
ResubmitOutputs == {<<>>, << <<"x">> >>}

\* ----------------------------------------------------------------- polling

\* Faulty variant of the loop over samples: the loop is left after one sample.
NextSampleBreak ==
    /\ fidx' = fidx + 1
    /\ pc' = "web"

\* The next iteration of the loop over samples, or the code after it.
NextSample ==
    /\ fidx' = fidx + 1
    /\ pc' = IF fidx < Len(fproc) THEN "sample" ELSE "web"

\* Top of the loop body: delete previously existing log file.
StartSample ==
    /\ pc = "sample"
    /\ tmpExists' = FALSE
    /\ tmpLines' = <<>>
    /\ success' = FALSE
    /\ attempt' = 0
    /\ lastOut' = <<>>
    /\ calls' = 0
    /\ pc' = "attempt"
    /\ UNCHANGED << envVars, lumisFile, error, fproc, cmds, data, fidx, outlines,
                    polled, resubmitCalls, completedReported, webVars >>

\* cmd >> tmpfile: the file is created when absent, the output is appended.
AppendRedirect(exists, lines, out) == IF exists THEN lines \o out ELSE out

\* [l for l in outlines if l.startswith('Jobs status:')]
IsJobsStatusLine(l) == StartsWith(l, JobsStatus)

JobsStatusLines(lines) == SelectSeq(lines, IsJobsStatusLine)

\* The check of the output: thissucces.
ThisSuccess(lines) == Len(lines) > 0 /\ Len(JobsStatusLines(lines)) = 1

\* Faulty variant of the retry loop's condition: one attempt too many.
LoopConditionOffByOne(a, s) == a <= MaxAttempts /\ ~s

\* The condition of the retry loop.
LoopCondition(a, s) == a < MaxAttempts /\ ~s

\* One iteration of the retry loop: run the status command, check the log.
Attempt ==
    /\ pc = "attempt"
    /\ LoopCondition(attempt, success)
    /\ \E out \in Outputs :
         LET log == AppendRedirect(tmpExists, tmpLines, out)
         IN /\ Len(log) <= MaxLog
            /\ tmpExists' = TRUE
            /\ tmpLines' = log
            /\ lastOut' = out
            /\ calls' = calls + 1
            /\ polled' = polled \cup {cmds[fidx].arg}
            /\ outlines' = IF Len(log) > 0 THEN JobsStatusLines(log) ELSE log
            /\ IF ThisSuccess(log)
               THEN success' = TRUE /\ attempt' = attempt
               ELSE success' = FALSE /\ attempt' = attempt + 1
    /\ UNCHANGED << envVars, lumisFile, pc, error, fproc, cmds, data, fidx,
                    resubmitCalls, completedReported, webVars >>

\* After the retry loop without success: mark the sample, continue.
SkipSample ==
    /\ pc = "attempt"
    /\ ~LoopCondition(attempt, success)
    /\ ~success
    /\ data' = [data EXCEPT ![Basename(fproc[fidx])].status = FailedStatus]
    /\ NextSample
    /\ UNCHANGED << envVars, lumisFile, error, fproc, cmds, tmpVars, attempt, success,
                    outlines, lastOut, callVars, webVars >>

\* ----------------------------------------------------------------- parsing

\* status in words[0]
KeywordIn(k, word) == Contains(word, <<k>>)

\* try: frac = words[1]; except: frac = '<none>'
Frac(words) == IF Len(words) >= 2 THEN words[2] ELSE NoneStr

\* The loop over the known statuses for one line's words; st is
\* [rec, jobsfailed, err, line].
RECURSIVE CheckStatuses(_, _, _)
CheckStatuses(st, words, ks) ==
    IF ks = <<>> THEN st
    ELSE LET k == Head(ks)
             hit == KeywordIn(k, words[1])
             st1 == IF hit
                    THEN [st EXCEPT !.rec.status = DictSet(@, k, Frac(words)),
                                    !.jobsfailed = @ \/ k = "failed"]
                    ELSE st
         IN CheckStatuses(st1, words, Tail(ks))

\* The body of the loop over the lines of the log.
ParseLine(st, raw) ==
    LET line == Remove(raw, JobsStatus)
        words == Split(line)
    IN IF Len(words) = 0 THEN [st EXCEPT !.line = line]
       ELSE LET st1 == [CheckStatuses(st, words, KnownStatuses) EXCEPT !.line = line]
            IN IF StartsWith(line, DashboardMarker)
               THEN IF Len(words) >= 4
                    THEN [st1 EXCEPT !.rec.grafana = words[4]]
                    ELSE [st1 EXCEPT !.err = TRUE]
               ELSE st1

\* The loop over the lines; an IndexError ends it.
RECURSIVE ParseLines(_, _)
ParseLines(st, lines) ==
    IF lines = <<>> \/ st.err THEN st
    ELSE ParseLines(ParseLine(st, Head(lines)), Tail(lines))

\* The parse of a log into a sample's record: the state of the loop at its end.
ParseOutput(rec, lines) ==
    ParseLines([rec |-> rec, jobsfailed |-> FALSE, err |-> FALSE, line |-> <<>>], lines)

\* Check if job is complete: the test made after the loop, on its last line.
CompletionCheck(line, lumis) ==
    /\ Contains(line, SchedulerMarker)
    /\ Contains(line, CompletedMarker)
    /\ ~lumis

\* status_cmd.replace('crab_status.sh', 'crab_command.sh resubmit')
ResubmitCmd(cmd) == [cmd EXCEPT !.script = "crab_command.sh resubmit"]

\* Handle case where failed jobs were found: the test that resubmits.
DoResubmit(jf, rs) == jf /\ rs

\* After the retry loop with success: read the log, remove it, parse it, check
\* for completion, resubmit, report, and go to the next sample.  lumis is
\* whether results/processedLumis.json is a file when the code looks.
ProcessSample ==
    /\ pc = "attempt"
    /\ ~LoopCondition(attempt, success)
    /\ success
    /\ \E lumis \in BOOLEAN :
       LET name == Basename(fproc[fidx])
           st == ParseOutput(data[name], tmpLines)
           statuscompleted == CompletionCheck(st.line, lumis)
       IN /\ outlines' = tmpLines
          /\ lumisFile' = lumis
          /\ data' = [data EXCEPT ![name] = st.rec]
          /\ IF st.err
             THEN /\ Raise("IndexError")
                  /\ tmpExists' = FALSE
                  /\ tmpLines' = <<>>
                  /\ UNCHANGED << fidx, resubmitCalls, completedReported >>
             ELSE /\ error' = error
                  /\ NextSample
                  /\ IF DoResubmit(st.jobsfailed, resubmit)
                     THEN \E out \in ResubmitOutputs :
                            /\ resubmitCalls' =
                                 [resubmitCalls EXCEPT ![ResubmitCmd(cmds[fidx]).arg] = @ + 1]
                            /\ tmpExists' = TRUE
                            /\ tmpLines' = AppendRedirect(FALSE, <<>>, out)
                     ELSE /\ resubmitCalls' = resubmitCalls
                          /\ tmpExists' = FALSE
                          /\ tmpLines' = <<>>
                  /\ completedReported' =
                       IF statuscompleted THEN completedReported \cup {fproc[fidx]}
                       ELSE completedReported
    /\ UNCHANGED << envVars, fproc, cmds, attempt, success, lastOut, calls, polled,
                    webVars >>

\* --------------------------------------------------------------- rendering

\* The colors dict of make_progress_bar, in its order.
BarColors ==
    << <<"finished", "lightgreen">>, <<"transferring", "turquoise">>,
       <<"running", "deepskyblue">>, <<"failed", "crimson">> >>

\* Faulty variant of the running sum: the offset never moves.
NextCumulStuck(cumul, val) == cumul

\* cumul += val
NextCumul(cumul, val) == cumul + val

\* The loop of make_progress_bar over the colors; float() may raise.
RECURSIVE BarLoop(_, _, _)
BarLoop(pv, colors, cumul) ==
    IF colors = <<>> THEN [ok |-> TRUE, segs |-> <<>>]
    ELSE LET status == Head(colors)[1]
             color == Head(colors)[2]
         IN IF ~DictHas(pv, status) THEN BarLoop(pv, Tail(colors), cumul)
            ELSE LET val == Float(StripPercent(DictGet(pv, status)))
                 IN IF ~val.ok THEN [ok |-> FALSE, segs |-> <<>>]
                    ELSE LET rest == BarLoop(pv, Tail(colors), NextCumul(cumul, val.val))
                             seg == [status |-> status, left |-> cumul,
                                     width |-> val.val, color |-> color]
                         IN [ok |-> rest.ok,
                             segs |-> IF rest.ok THEN <<seg>> \o rest.segs ELSE <<>>]

\* make_progress_bar: the segments, and the text laid over them (the items of
\* the mapping in its order).
make_progress_bar(progress_values) ==
    LET r == BarLoop(progress_values, BarColors, 0)
    IN [ok |-> r.ok, segs |-> r.segs, text |-> progress_values]

\* float(sample_status[key].strip('%')) when the key is present, else 0.
Fraction(status, key) ==
    IF DictHas(status, key) THEN Float(StripPercent(DictGet(status, key)))
    ELSE [ok |-> TRUE, val |-> 0]

PyNumber(n) == [type |-> "number", val |-> n]

PyStr(t) == [type |-> "str", val |-> t]

\* a == b in Python: a number and a str are never equal.
PyEq(a, b) == a.type = b.type /\ a.val = b.val

\* The special case for old submissions: the test that raises.
GuardTrips(status, finished_fraction, f) ==
    /\ ~f
    /\ Len(status) = 1
    /\ DictHas(status, "finished")
    /\ PyEq(PyNumber(finished_fraction), PyStr(<<"0", "%">>))

\* The body of web's loop over the samples for one sample: a row or an error.
\* A key of data['samples'] holds no '/', so the row shows the key itself.
WebRow(sample, rec, f) ==
    LET fin == Fraction(rec.status, "finished")
        tra == Fraction(rec.status, "transferring")
        run == Fraction(rec.status, "running")
    IN IF ~fin.ok \/ ~tra.ok \/ ~run.ok THEN [err |-> "ValueError", row |-> <<>>]
       ELSE IF GuardTrips(rec.status, fin.val, f)
            THEN [err |-> "status seems to be irretrievable", row |-> <<>>]
       ELSE LET bar == make_progress_bar(rec.status)
            IN IF ~bar.ok THEN [err |-> "ValueError", row |-> <<>>]
               ELSE [err |-> "none",
                     row |-> << [name |-> sample, version |-> "-", segs |-> bar.segs,
                                 text |-> bar.text, grafana |-> rec.grafana] >>]

\* web's loop over the sorted samples; the first error ends it.
RECURSIVE WebRows(_, _, _)
WebRows(names, sampledata, f) ==
    IF names = <<>> THEN [err |-> "none", rows |-> <<>>]
    ELSE LET r == WebRow(Head(names), sampledata[Head(names)], f)
         IN IF r.err # "none" THEN [err |-> r.err, rows |-> <<>>]
            ELSE LET rest == WebRows(Tail(names), sampledata, f)
                 IN [err |-> rest.err,
                     rows |-> IF rest.err = "none" THEN r.row \o rest.rows ELSE <<>>]

\* web(data, webpath, force): the page is written only when no sample raised.
web(sampledata, f) == WebRows(SortNames(DOMAIN sampledata), sampledata, f)

\* Make web interface for gathered completion data.
Web ==
    /\ pc = "web"
    /\ webdir' = TRUE
    /\ LET r == web(data, force)
       IN IF r.err # "none"
          THEN Raise(r.err) /\ indexHtml' = indexHtml
          ELSE /\ pc' = "done"
               /\ error' = error
               /\ indexHtml' = [exists |-> TRUE, rows |-> r.rows]
    /\ UNCHANGED << envVars, lumisFile, fproc, cmds, data, tmpVars, loopVars, callVars >>

\* ---------------------------------------------------------- specifications

Next ==
    \/ CheckArgs
    \/ Discover
    \/ FindScripts
    \/ InitRecords
    \/ StartSample
    \/ Attempt
    \/ SkipSample
    \/ ProcessSample
    \/ Web

\* A run of the script.
Spec == Init /\ [][Next]_vars

\* ------------------------------------------------- the parser on its own

\* The lines of a log handed to the parser: status lines with and without
\* the marker, a line without a fraction, an error message that starts with
\* 'failed:', the scheduler line, the dashboard line with and without its
\* URL, an empty line, a line that starts with no known status.
ParserLines ==
    { Line(JobsStatus, <<SP, "finished", SP, "100", "%">>),
      Line(JobsStatus, <<SP, "finished">>),
      Line(JobsStatus, <<SP, SP, "failed", SP, SP, "50", "%">>),
      <<SP, "running", SP, "50", "%">>,
      <<"failed", ":", SP, "x">>,
      Line(SchedulerMarker, <<":", SP, "COMPLETED">>),
      Line(DashboardMarker, <<":", SP, "http://x">>),
      Line(DashboardMarker, <<":">>),
      <<>>,
      <<"x", SP, "5", "%">> }

\* The logs on which the retry loop ends with success.
ParserLogs == {l \in SeqsUpTo(ParserLines, MaxParseLen) : ThisSuccess(l)}

\* The state after the first attempt of a run over one sample has succeeded.
InitParse ==
    /\ simpackIsDir = TRUE
    /\ proxyMissing = FALSE
    /\ resubmit \in BOOLEAN
    /\ test = FALSE
    /\ found = {AllPaths[1]}
    /\ scripts = {WorkdirOf(AllPaths[1])}
    /\ lumisFile = FALSE
    /\ pc = "attempt"
    /\ error = "none"
    /\ fproc = <<AllPaths[1]>>
    /\ cmds = <<StatusCmd(AllPaths[1])>>
    /\ data = [n \in {Basename(AllPaths[1])} |-> DefaultRecord]
    /\ tmpExists = TRUE
    /\ tmpLines \in ParserLogs
    /\ fidx = 1
    /\ attempt = 0
    /\ success = TRUE
    /\ outlines = JobsStatusLines(tmpLines)
    /\ lastOut = tmpLines
    /\ calls = 1
    /\ polled = {AllPaths[1]}
    /\ resubmitCalls = [p \in Universe |-> 0]
    /\ completedReported = {}
    /\ force = FALSE
    /\ webdir = FALSE
    /\ indexHtml = NoPage

NextParse ==
    \/ ProcessSample
    \/ Web

\* The parse of one log, and the rendering of its result.
SpecParse == InitParse /\ [][NextParse]_vars

\* ----------------------------------------------- the renderer on its own

WebKeys == {"finished", "transferring", "running", "failed", "idle"}

WebValues == {<<"0", "%">>, <<"50", "%">>, NoneStr}

\* The status mappings handed to web: up to MaxStatusLen entries, distinct keys.
WebStatuses ==
    {d \in SeqsUpTo(WebKeys \X WebValues, MaxStatusLen) :
        \A i, j \in 1..Len(d) : d[i][1] = d[j][1] => i = j}

\* The page an earlier run wrote, for a sample then at finished: 73%.
PriorStatus == << <<"finished", <<"73", "%">> >> >>

PriorPage ==
    [exists |-> TRUE,
     rows |-> << [name |-> "A", version |-> "-",
                  segs |-> << [status |-> "finished", left |-> 0, width |-> 73,
                               color |-> "lightgreen"] >>,
                  text |-> PriorStatus, grafana |-> EmptyStr] >>]

\* A call of web(data, webpath, force) on the data of one sample.
InitWeb ==
    /\ simpackIsDir = TRUE
    /\ proxyMissing = FALSE
    /\ resubmit = FALSE
    /\ test = FALSE
    /\ found = {}
    /\ scripts = {}
    /\ lumisFile = FALSE
    /\ pc = "web"
    /\ error = "none"
    /\ fproc = <<>>
    /\ cmds = <<>>
    /\ \E st \in WebStatuses : data = [n \in {"A"} |-> [status |-> st, grafana |-> EmptyStr]]
    /\ tmpExists = FALSE
    /\ tmpLines = <<>>
    /\ fidx = 0
    /\ attempt = 0
    /\ success = FALSE
    /\ outlines = <<>>
    /\ lastOut = <<>>
    /\ calls = 0
    /\ polled = {}
    /\ resubmitCalls = [p \in Universe |-> 0]
    /\ completedReported = {}
    /\ force \in BOOLEAN
    /\ indexHtml \in {NoPage, PriorPage}
    /\ webdir = indexHtml.exists

NextWeb == Web

\* One call of web.
SpecWeb == InitWeb /\ [][NextWeb]_vars

\* ------------------------------------------------------------------ claims

\* The status names of the data model.
FixedKeys ==
    {"finished", "running", "transferring", "failed",
     "killed", "idle", "unsubmitted", "toRetry"}

\* A step that invokes the status command.
AttemptStep == calls' = calls + 1

\* The step that gives up on the current sample.
SkipStep == pc = "attempt" /\ ~success /\ fidx' = fidx + 1

\* The words of a line once the 'Jobs status:' marker is removed.
WordsOf(l) == Split(Remove(l, JobsStatus))

\* The first word of the line is exactly the text k.
FirstTokenIs(l, k) == Len(WordsOf(l)) >= 1 /\ WordsOf(l)[1] = <<k>>

\* C1: the status command of a sample is invoked at most 5 times and never
\* again after an attempt judged successful; an attempt whose own output has
\* zero or several 'Jobs status:' lines is never judged successful, and the
\* loop gives up only after exactly 5 invocations, setting the sample's status
\* mapping to exactly {'crab status': 'failed'}.
C1_RetryLoop ==
    /\ [](/\ calls <= 5
          /\ pc = "attempt" => calls = attempt + (IF success THEN 1 ELSE 0))
    /\ [][/\ AttemptStep =>
               /\ ~success
               /\ Len(JobsStatusLines(lastOut')) # 1 => ~success'
          /\ SkipStep =>
               /\ calls = 5
               /\ data'[Basename(fproc[fidx])].status
                    = << <<"crab status", <<"failed">> >> >>]_vars

\* C1 witness: a sample has just been given up after 5 invocations.
C1_Witness ==
    /\ pc = "sample"
    /\ calls = 5
    /\ ~success
    /\ data[Basename(fproc[fidx - 1])].status = << <<"crab status", <<"failed">> >> >>

C4_Original ==
    \A n \in DOMAIN data : DictKeys(data[n].status) \subseteq FixedKeys

\* C4 amended: the keys of every status mapping are among the fixed names and
\* the one further key 'crab status', whose value is 'failed'.
C4_Amended ==
    \A n \in DOMAIN data :
        /\ DictKeys(data[n].status) \subseteq FixedKeys \cup {"crab status"}
        /\ DictHas(data[n].status, "crab status")
             => DictGet(data[n].status, "crab status") = <<"failed">>

\* C4 witness: the run ended with a record that holds the key 'crab status'.
C4_Witness ==
    /\ pc = "done"
    /\ \E n \in DOMAIN data : DictHas(data[n].status, "crab status")

\* The configuration is in error: the simpack directory or the given proxy is
\* missing, no sample is found, or a selected sample has no crab_status.sh.
BadConfig ==
    \/ ~simpackIsDir
    \/ proxyMissing
    \/ found = {}
    \/ \E f \in Range(Selected(SortPaths(found), test)) : WorkdirOf(f) \notin scripts

\* C6: with a configuration in error the run never gets past the checks: no
\* status or resubmission command is invoked, no record is made, no page is
\* written, and the only way the run ends is by one of the four errors.
C6_ConfigErrorsFirst ==
    BadConfig =>
        /\ pc \in {"check_args", "discover", "find_scripts", "aborted"}
        /\ polled = {}
        /\ calls = 0
        /\ \A p \in Universe : resubmitCalls[p] = 0
        /\ data = <<>>
        /\ indexHtml = NoPage
        /\ pc = "aborted" =>
             error \in {"simpack directory does not exist", "provided proxy does not exist",
                        "No samples found", "Could not find crab_status.sh"}

\* C6 witness: the run ended on a missing crab_status.sh of a later sample,
\* the first sample having one.
C6_Witness ==
    /\ pc = "aborted"
    /\ error = "Could not find crab_status.sh"
    /\ Len(fproc) = 2
    /\ WorkdirOf(fproc[1]) \in scripts

\* C9 as stated: an attempt whose own output holds exactly one 'Jobs status:'
\* line succeeds, whatever the earlier attempts for the sample printed.
C9_Original ==
    (pc = "attempt" /\ calls > 0 /\ Len(JobsStatusLines(lastOut)) = 1) => success

\* The second word of a line, or the sentinel when it has none.
SecondTokenOf(l) == IF Len(WordsOf(l)) >= 2 THEN WordsOf(l)[2] ELSE <<"<none>">>

\* The lines of the parsed log whose first token is exactly the status name k.
LinesOf(k) == {i \in 1..Len(outlines) : FirstTokenIs(outlines[i], k)}

\* The greatest member of a non-empty set of numbers.
Last(S) == CHOOSE i \in S : \A j \in S : j <= i

\* C5 as stated: for a sample polled with success and parsed, the resubmission
\* command was invoked, once, exactly when resubmission is enabled and some
\* line of the parsed output reports failed jobs (its first token is 'failed').
C5_Original ==
    pc = "web" =>
        /\ resubmitCalls[fproc[1]] <= 1
        /\ resubmitCalls[fproc[1]] = 1 <=> (resubmit /\ LinesOf("failed") # {})

\* C7 as stated: after a successful poll, for every known status name with a
\* line whose first token is that name, the status mapping holds the second
\* token of the last such line (the sentinel '<none>' when it has none); the
\* mapping is otherwise as before the parse, {'finished': '0%'}.
C7_Original ==
    pc = "web" =>
        LET status == data[Basename(fproc[1])].status
        IN /\ DictKeys(status) \subseteq FixedKeys
           /\ \A k \in FixedKeys :
                IF LinesOf(k) # {}
                THEN /\ DictHas(status, k)
                     /\ DictGet(status, k) = SecondTokenOf(outlines[Last(LinesOf(k))])
                ELSE IF k = "finished"
                     THEN DictHas(status, k) /\ DictGet(status, k) = <<"0", "%">>
                     ELSE ~DictHas(status, k)

\* C10 as stated: for a sample polled with success and parsed, 'This task is
\* completed...' was reported exactly when some line of the output contains
\* 'Status on the scheduler' and 'COMPLETED' and results/processedLumis.json is
\* no file, at whatever place that line stands.
C10_Original ==
    pc = "web" =>
        (fproc[1] \in completedReported
           <=> /\ \E i \in 1..Len(outlines) :
                    /\ Contains(outlines[i], <<"Status", " ", "on", " ", "the", " ", "scheduler">>)
                    /\ Contains(outlines[i], <<"COMPLETED">>)
               /\ ~lumisFile)

\* The mapping that holds the one entry finished: '0%'.
OnlyFinishedZero == << <<"finished", <<"0", "%">> >> >>

\* C2 as stated: web called without force on data in which a sample's status is
\* exactly {'finished': '0%'} raises and writes no page: index.html stays as it
\* was, absent or the page of the earlier run.
C2_Original ==
    (~force /\ \E n \in DOMAIN data : data[n].status = OnlyFinishedZero) =>
        /\ pc # "done"
        /\ indexHtml \in {NoPage, PriorPage}

\* The number a percentage stands for.
PercentOf(v) ==
    CASE v = <<"0", "%">> -> 0
      [] v = <<"50", "%">> -> 50

\* The sum of the widths of the first n segments.
RECURSIVE WidthsBefore(_, _)
WidthsBefore(segs, n) == IF n = 0 THEN 0 ELSE WidthsBefore(segs, n - 1) + segs[n].width

\* C8: the bar of a written row has one segment for each of finished,
\* transferring, running, failed that the mapping holds, in that order and none
\* else; a segment's width is the status's percentage, its left offset the sum
\* of the widths before it; {'finished': '50%', 'running': '50%'} gives the
\* offsets 0 and 50 and the widths 50 and 50.
C8_ProgressBar ==
    pc = "done" =>
        LET status == data["A"].status
            segs == indexHtml.rows[1].segs
            Present(k) == DictHas(status, k)
            present == SelectSeq(<<"finished", "transferring", "running", "failed">>, Present)
        IN /\ Len(segs) = Len(present)
           /\ \A i \in 1..Len(segs) :
                /\ segs[i].status = present[i]
                /\ segs[i].width = PercentOf(DictGet(status, present[i]))
                /\ segs[i].left = WidthsBefore(segs, i - 1)
           /\ status = << <<"finished", <<"50", "%">> >>, <<"running", <<"50", "%">> >> >>
                => /\ Len(segs) = 2
                   /\ <<segs[1].left, segs[1].width>> = <<0, 50>>
                   /\ <<segs[2].left, segs[2].width>> = <<50, 50>>

\* C8 witness: the page was written for {'finished': '50%', 'running': '50%'}.
C8_Witness ==
    /\ pc = "done"
    /\ data["A"].status = << <<"finished", <<"50", "%">> >>, <<"running", <<"50", "%">> >> >>
    /\ Len(indexHtml.rows[1].segs) = 2

====
